---- MODULE Spec2Model ----
(***************************************************************************)
(* State-machine model of the USSD food ordering service in src/app.py.    *)
(*                                                                         *)
(* Texts are strings, read as sequences of characters, so the conversions *)
(* of the code (strip, character removal, int(), the phone pattern, the    *)
(* 120 character cut of a message) are computed and not assumed; messages  *)
(* are built as the f-strings of the code build them.                      *)
(* One step of Next is one HTTP request to ussd_handler, run to its end;   *)
(* NextCharge runs one call of paystack_payment pass by pass, NextThreads  *)
(* runs the requests of two server threads statement by statement.         *)
(* The turn-log table (log_to_airtable) is only ever written and is left   *)
(* out of the state; the clock and uuid4 are stood for by fixed texts and  *)
(* a counter of the ids drawn.                                             *)
(***************************************************************************)
EXTENDS Integers, Sequences, FiniteSets, TLC

VARIABLES
    memory_sessions,   \* src/app.py:49  msisdn -> session record
    orders_table,      \* rows created in the Airtable orders table
    uuid_counter,      \* number of order ids drawn from uuid.uuid4()
    env,               \* configuration read at start-up (lines 19-37)
    requests_left,     \* number of requests the run still sends
    response,          \* the response of the last request
    charge,            \* the call of paystack_payment in progress (lines 181-369)
    threads,           \* the requests the server threads are handling
    window             \* history: the sessions when the server was last at
                       \* rest and the requests received since

vars == <<memory_sessions, orders_table, uuid_counter, env, requests_left, response,
          charge, threads, window>>

\* what a request handled in one piece leaves alone
in_progress == <<charge, threads, window>>

-----------------------------------------------------------------------------
(* Bounds of the model *)

MaxCart == 2
MaxOrders == 2
MaxRequests == 9
MaxOrderRequests == 11
MaxThreadRequests == 3

-----------------------------------------------------------------------------
(* Text helpers *)

\* Python's None where the other values are strings (selected_category)
None == "None"

\* Python's None in selected_item, whose other values are (name, price)
NoneItem == <<>>

\* int() raising ValueError
ValueError == [ok |-> FALSE, value |-> 0]

IntValue(n) == [ok |-> TRUE, value |-> n]

DigitChars == <<"0", "1", "2", "3", "4", "5", "6", "7", "8", "9">>

IsDigit(c) == \E i \in 1..10 : DigitChars[i] = c

DigitVal(c) == (CHOOSE i \in 1..10 : DigitChars[i] = c) - 1

IsSpace(c) == c \in {" ", "\t", "\n"}

Last(s) == SubSeq(s, Len(s), Len(s))

RECURSIVE LStrip(_)
LStrip(s) == IF s # "" /\ IsSpace(Head(s)) THEN LStrip(Tail(s)) ELSE s

RECURSIVE RStrip(_)
RStrip(s) ==
    IF s # "" /\ IsSpace(Last(s)) THEN RStrip(SubSeq(s, 1, Len(s) - 1)) ELSE s

\* str.strip()
Strip(s) == RStrip(LStrip(s))

\* str(n) for n >= 0
RECURSIVE Str(_)
Str(n) == IF n < 10 THEN DigitChars[n + 1]
          ELSE Str(n \div 10) \o DigitChars[(n % 10) + 1]

\* Python integers are unbounded; the model's are not, and a value above
\* IntCap is stood for by IntCap (the code only compares them with 1 and 20)
IntCap == 1000000

Saturate(n) == IF n > IntCap THEN IntCap ELSE n

RECURSIVE DigitsValue(_, _)
DigitsValue(s, acc) ==
    IF s = "" THEN acc
    ELSE DigitsValue(Tail(s), Saturate(10 * acc + DigitVal(Head(s))))

RECURSIVE AllDigits(_)
AllDigits(s) == s = "" \/ (IsDigit(Head(s)) /\ AllDigits(Tail(s)))

\* str.isdigit()
IsDigitText(s) == s # "" /\ AllDigits(s)

\* int(text): surrounding whitespace, an optional sign, then decimal digits
PyInt(text) ==
    LET t == Strip(text)
        signed == t # "" /\ Head(t) \in {"+", "-"}
        body == IF signed THEN Tail(t) ELSE t
    IN  IF ~IsDigitText(body) THEN ValueError
        ELSE IF signed /\ Head(t) = "-" THEN IntValue(0 - DigitsValue(body, 0))
        ELSE IntValue(DigitsValue(body, 0))

\* re.sub(r'[^\d]', '', phone)
RECURSIVE OnlyDigits(_)
OnlyDigits(s) ==
    IF s = "" THEN ""
    ELSE (IF IsDigit(Head(s)) THEN Head(s) ELSE "") \o OnlyDigits(Tail(s))

\* re.sub(r'[<>"\']', '', text)
RECURSIVE RemoveMarkup(_)
RemoveMarkup(s) ==
    IF s = "" THEN ""
    ELSE (IF Head(s) \in {"<", ">", "\"", "'"} THEN "" ELSE Head(s))
             \o RemoveMarkup(Tail(s))

\* text[:n]
Truncate(s, n) == SubSeq(s, 1, IF Len(s) < n THEN Len(s) ELSE n)

SanitizeCap == 200

\* sanitize_input
sanitize_input(text) ==
    IF text = "" THEN ""
    ELSE Truncate(RemoveMarkup(Strip(text)), SanitizeCap)

\* validate_phone_number with the pattern ^233\d{9}$
validate_phone_number_any_digit(phone) ==
    IF phone = "" THEN FALSE
    ELSE LET clean_phone == OnlyDigits(phone)
         IN  /\ Len(clean_phone) = 12
             /\ SubSeq(clean_phone, 1, 3) = "233"

\* validate_phone_number: ^233[2-9]\d{8}$ on the digits of the text
validate_phone_number(phone) ==
    IF phone = "" THEN FALSE
    ELSE LET clean_phone == OnlyDigits(phone)
         IN  /\ Len(clean_phone) = 12
             /\ SubSeq(clean_phone, 1, 3) = "233"
             /\ DigitVal(SubSeq(clean_phone, 4, 4)) >= 2

StartsWith(s, p) == Len(s) >= Len(p) /\ SubSeq(s, 1, Len(p)) = p

\* w in s
Contains(s, w) ==
    \E i \in 1..(Len(s) - Len(w) + 1) : SubSeq(s, i, i + Len(w) - 1) = w

UpperChars == "ABCDEFGHIJKLMNOPQRSTUVWXYZ"
LowerChars == "abcdefghijklmnopqrstuvwxyz"

CharAt(s, i) == SubSeq(s, i, i)

RECURSIVE Upper(_)
Upper(s) ==
    IF s = "" THEN ""
    ELSE (IF \E i \in 1..26 : CharAt(LowerChars, i) = Head(s)
          THEN CharAt(UpperChars, CHOOSE i \in 1..26 : CharAt(LowerChars, i) = Head(s))
          ELSE Head(s)) \o Upper(Tail(s))

RECURSIVE Lower(_)
Lower(s) ==
    IF s = "" THEN ""
    ELSE (IF \E i \in 1..26 : CharAt(UpperChars, i) = Head(s)
          THEN CharAt(LowerChars, CHOOSE i \in 1..26 : CharAt(UpperChars, i) = Head(s))
          ELSE Head(s)) \o Lower(Tail(s))

\* "\n".join(lines)
RECURSIVE Join(_)
Join(lines) ==
    IF lines = <<>> THEN ""
    ELSE IF Len(lines) = 1 THEN lines[1]
    ELSE lines[1] \o "\n" \o Join(Tail(lines))

-----------------------------------------------------------------------------
(* Catalog and configuration *)

HELP_PHONE == "0548118716"

CATEGORIES == <<"Local Dishes", "Continental", "Drinks", "Snacks">>

MENUS ==
    [cat \in {CATEGORIES[i] : i \in 1..Len(CATEGORIES)} |->
        CASE cat = "Local Dishes" ->
                <<<<"Jollof Rice", 30>>, <<"Banku & Tilapia", 40>>, <<"Fufu & Light Soup", 35>>>>
          [] cat = "Continental" ->
                <<<<"Pizza", 50>>, <<"Burger", 25>>, <<"Pasta", 30>>>>
          [] cat = "Drinks" ->
                <<<<"Coke", 5>>, <<"Water", 2>>, <<"Juice", 7>>>>
          [] cat = "Snacks" ->
                <<<<"Meat Pie", 10>>, <<"Chips", 8>>, <<"Samosa", 12>>>>]

\* the clock is not part of the model: every reading gives the same text
get_airtable_datetime == "0000-00-00 00:00"

\* str(uuid.uuid4())[:8].upper() of the n-th id drawn; distinct draws are
\* taken to give distinct ids
OrderIdText(n) == SubSeq("00000000", 1, 8 - Len(Str(n))) \o Str(n)

-----------------------------------------------------------------------------
(* Session store *)

NewSession(msisdn) ==
    [state |-> "MAIN_MENU",
     cart |-> <<>>,
     selected_category |-> None,
     selected_item |-> NoneItem,
     delivery_location |-> "",
     payment_method |-> "",
     network |-> "",
     momo_number |-> "",
     total |-> 0,
     order_history |-> <<>>,
     session_id |-> "sid-" \o msisdn]

\* get_session: the stored record, created on first contact
get_session(sessions, msisdn) ==
    IF msisdn \in DOMAIN sessions THEN sessions[msisdn] ELSE NewSession(msisdn)

\* a store that keeps one session for all subscribers
save_session_one_record(sessions, msisdn, session) ==
    [m \in (DOMAIN sessions) \cup {msisdn} |-> session]

\* save_session: memory_sessions[msisdn] = session
save_session(sessions, msisdn, session) ==
    [m \in (DOMAIN sessions) \cup {msisdn} |->
        IF m = msisdn THEN session ELSE sessions[m]]

-----------------------------------------------------------------------------
(* Response encoder *)

UssdLimit == 120

\* ussd_response that sends the message as it is, without the cut
ussd_response_uncut(msisdn, msg, continue_session) ==
    [code |-> 200, MSISDN |-> msisdn, MSG |-> msg, MSGTYPE |-> continue_session]

ussd_response(msisdn, msg, continue_session) ==
    [code |-> 200, MSISDN |-> msisdn, MSG |-> Truncate(msg, UssdLimit),
     MSGTYPE |-> continue_session]

\* what a handler hands back: the session as it left it, the response, the
\* rows it created in the orders table and the number of order ids it drew
Out(session, resp) == [session |-> session, response |-> resp, rows |-> <<>>, drawn |-> 0]

\* an exception escaping a handler: caught in ussd_handler (lines 522-524)
InternalError == [code |-> 500, error |-> "Internal error"]

\* a request without a JSON body (lines 467-468)
InvalidRequest == [code |-> 400, error |-> "Invalid request"]

Raise(session) == Out(session, InternalError)

-----------------------------------------------------------------------------
(* Prompts *)

MainMenuMsg == "Welcome to FLAP Dish!\n1. Order Food\n2. My Orders\n3. Help\n0. Exit"

\* [f"{i+1}. {cat}" for i, cat in enumerate(CATEGORIES)]
CategoryLines == [i \in 1..Len(CATEGORIES) |-> Str(i) \o ". " \o CATEGORIES[i]]

CategoryMsg == "Select Category:\n" \o Join(CategoryLines) \o "\n#. Back"

\* [f"{i+1}. {m[0]} - GHS {m[1]}" for i, m in enumerate(menu)]
MenuLines(menu) ==
    [i \in 1..Len(menu) |-> Str(i) \o ". " \o menu[i][1] \o " - GHS " \o Str(menu[i][2])]

ItemMsg(cat) == cat \o ":\n" \o Join(MenuLines(MENUS[cat])) \o "\n#. Back"

QtyMsg(item) == "You selected " \o item[1] \o ".\nEnter quantity (1-20):"

AddedMsg(item, qty) ==
    Str(qty) \o " x " \o item[1] \o " added to cart.\n1. Add more\n2. Checkout\n#. Cancel"

CartMsg == "1. Add more\n2. Checkout\n#. Cancel"

DeliveryMsg == "Enter delivery location:"

DeliveryMinMsg == "Enter delivery location (min 3 chars):"

PaymentMsg == "Select payment:\n1. Mobile Money\n2. Cash\n#. Back"

NetworkMsg == "Choose Network:\n1. MTN\n2. Vodafone\n3. AirtelTigo\n#. Back"

MomoNumberMsg(msisdn) == "Enter MoMo number or 1 to use " \o msisdn \o ":"

\* [str(i+1) for i in range(n)]
Choices(n) == {Str(i) : i \in 1..n}

-----------------------------------------------------------------------------
(* Pricing *)

RECURSIVE ItemCount(_)
ItemCount(cart) == IF cart = <<>> THEN 0 ELSE cart[1][2] + ItemCount(Tail(cart))

RECURSIVE ItemsTotal(_)
ItemsTotal(cart) ==
    IF cart = <<>> THEN 0 ELSE cart[1][1][2] * cart[1][2] + ItemsTotal(Tail(cart))

DeliveryFee(item_count) == IF item_count > 0 THEN 15 + (item_count - 1) * 5 ELSE 0

ExtraCharge == 2

\* items_total + delivery_fee + extra_charge (lines 152-154 and 755-758)
OrderTotal(cart) == ItemsTotal(cart) + DeliveryFee(ItemCount(cart)) + ExtraCharge

-----------------------------------------------------------------------------
(* State handlers: each gives the session as the handler leaves it and the *)
(* response it returns                                                     *)

RecentOrders(orders) ==
    SubSeq(orders, IF Len(orders) > 3 THEN Len(orders) - 2 ELSE 1, Len(orders))

OrderLines(orders) ==
    [i \in 1..Len(orders) |-> orders[i].order_id \o ": GHS " \o Str(orders[i].total)]

handle_main_menu(input_text, session, msisdn) ==
    IF input_text = "" \/ StartsWith(input_text, "*") \/ input_text = "1" THEN
        IF input_text = "1"
        THEN Out([session EXCEPT !.state = "CATEGORY"],
                 ussd_response(msisdn, CategoryMsg, TRUE))
        ELSE Out(session, ussd_response(msisdn, MainMenuMsg, TRUE))
    ELSE IF input_text = "2" THEN
        IF session.order_history # <<>>
        THEN Out(session, ussd_response(msisdn,
                 "Recent Orders:\n"
                     \o Join(OrderLines(RecentOrders(session.order_history)))
                     \o "\n#. Back", TRUE))
        ELSE Out(session, ussd_response(msisdn, "No orders yet.\n#. Back", TRUE))
    ELSE IF input_text = "3" THEN
        Out(session, ussd_response(msisdn,
            "Call " \o HELP_PHONE \o " for help.\n#. Back", TRUE))
    ELSE IF input_text = "0" THEN
        Out(session, ussd_response(msisdn, "Thank you for using FLAP Dish!", FALSE))
    ELSE IF input_text = "#" THEN
        Out(session, ussd_response(msisdn, MainMenuMsg, TRUE))
    ELSE IF Len(input_text) = 1 /\ IsDigitText(input_text) THEN
        Out(session, ussd_response(msisdn, "Invalid option.\n" \o MainMenuMsg, TRUE))
    ELSE Out(session, ussd_response(msisdn, MainMenuMsg, TRUE))

handle_category(input_text, session, msisdn) ==
    IF input_text = "#" THEN
        handle_main_menu("", [session EXCEPT !.state = "MAIN_MENU"], msisdn)
    ELSE IF input_text \in Choices(Len(CATEGORIES)) THEN
        LET cat == CATEGORIES[PyInt(input_text).value]
        IN  Out([session EXCEPT !.selected_category = cat, !.state = "ITEM"],
                ussd_response(msisdn, ItemMsg(cat), TRUE))
    ELSE Out(session, ussd_response(msisdn, CategoryMsg, TRUE))

handle_item(input_text, session, msisdn) ==
    IF input_text = "#" THEN
        handle_category("", [session EXCEPT !.state = "CATEGORY"], msisdn)
    ELSE IF session.selected_category \notin DOMAIN MENUS THEN
        Raise(session)   \* MENUS[cat]: KeyError
    ELSE
        LET cat == session.selected_category
            menu == MENUS[cat]
        IN  IF input_text \in Choices(Len(menu)) THEN
                LET item == menu[PyInt(input_text).value]
                IN  Out([session EXCEPT !.selected_item = item, !.state = "QTY"],
                        ussd_response(msisdn, QtyMsg(item), TRUE))
            ELSE Out(session, ussd_response(msisdn, ItemMsg(cat), TRUE))

QtyMin == 1
QtyMax == 20

\* handle_quantity putting the new entry at the front of the cart
handle_quantity_prepend(input_text, session, msisdn) ==
    LET item == session.selected_item
        qty == PyInt(input_text)
    IN  IF qty.ok /\ QtyMin <= qty.value /\ qty.value <= QtyMax /\ item # NoneItem THEN
            Out([session EXCEPT !.cart = <<<<item, qty.value>>>> \o @, !.state = "CART"],
                ussd_response(msisdn, AddedMsg(item, qty.value), TRUE))
        ELSE IF item = NoneItem THEN Raise(session)
        ELSE Out(session, ussd_response(msisdn, QtyMsg(item), TRUE))

\* handle_quantity with the upper test off by one (qty <= 21)
handle_quantity_upto21(input_text, session, msisdn) ==
    LET item == session.selected_item
        qty == PyInt(input_text)
    IN  IF qty.ok /\ QtyMin <= qty.value /\ qty.value <= QtyMax + 1 /\ item # NoneItem THEN
            Out([session EXCEPT !.cart = Append(@, <<item, qty.value>>), !.state = "CART"],
                ussd_response(msisdn, AddedMsg(item, qty.value), TRUE))
        ELSE IF item = NoneItem THEN Raise(session)
        ELSE Out(session, ussd_response(msisdn, QtyMsg(item), TRUE))

\* handle_quantity moving on to the cart without adding the entry
handle_quantity_not_added(input_text, session, msisdn) ==
    LET item == session.selected_item
        qty == PyInt(input_text)
    IN  IF qty.ok /\ QtyMin <= qty.value /\ qty.value <= QtyMax /\ item # NoneItem THEN
            Out([session EXCEPT !.state = "CART"],
                ussd_response(msisdn, AddedMsg(item, qty.value), TRUE))
        ELSE IF item = NoneItem THEN Raise(session)
        ELSE Out(session, ussd_response(msisdn, QtyMsg(item), TRUE))

handle_quantity(input_text, session, msisdn) ==
    LET item == session.selected_item
        qty == PyInt(input_text)
    IN  IF qty.ok /\ QtyMin <= qty.value /\ qty.value <= QtyMax THEN
            IF item = NoneItem   \* item[0]: TypeError, after the append
            THEN Raise([session EXCEPT !.cart = Append(@, <<item, qty.value>>),
                                       !.state = "CART"])
            ELSE Out([session EXCEPT !.cart = Append(@, <<item, qty.value>>),
                                !.state = "CART"],
                ussd_response(msisdn, AddedMsg(item, qty.value), TRUE))
        ELSE IF item = NoneItem THEN Raise(session)
        ELSE Out(session, ussd_response(msisdn, QtyMsg(item), TRUE))

handle_cart(input_text, session, msisdn) ==
    IF input_text = "1" THEN
        handle_category("", [session EXCEPT !.state = "CATEGORY"], msisdn)
    ELSE IF input_text = "2" THEN
        Out([session EXCEPT !.state = "DELIVERY"],
            ussd_response(msisdn, DeliveryMsg, TRUE))
    ELSE IF input_text = "#" THEN
        handle_main_menu("", [session EXCEPT !.cart = <<>>, !.state = "MAIN_MENU"],
                         msisdn)
    ELSE Out(session, ussd_response(msisdn, CartMsg, TRUE))

MinLocationLen == 3

\* handle_delivery taking a location of 2 characters
handle_delivery_two_chars(input_text, session, msisdn) ==
    IF input_text # "" /\ Len(Strip(input_text)) >= MinLocationLen - 1 THEN
        Out([session EXCEPT !.delivery_location = input_text,
                            !.state = "PAYMENT_METHOD"],
            ussd_response(msisdn, PaymentMsg, TRUE))
    ELSE Out(session, ussd_response(msisdn, DeliveryMinMsg, TRUE))

handle_delivery(input_text, session, msisdn) ==
    IF input_text # "" /\ Len(Strip(input_text)) >= MinLocationLen THEN
        Out([session EXCEPT !.delivery_location = input_text,
                            !.state = "PAYMENT_METHOD"],
            ussd_response(msisdn, PaymentMsg, TRUE))
    ELSE Out(session, ussd_response(msisdn, DeliveryMinMsg, TRUE))

-----------------------------------------------------------------------------
(* Payment gateway *)

\* network_mapping (lines 189-193 and 378-382)
NetworkMapping == [mtn |-> "mtn", vodafone |-> "vod", airteltigo |-> "tgo"]

PayFail(message) == [status |-> FALSE, message |-> message, display_text |-> None]

PayOk(message, display_text) ==
    [status |-> TRUE, message |-> message, display_text |-> display_text]

\* What one POST to the gateway can come back with: a timeout, another
\* exception, or a JSON body (status, code, message, data.status,
\* data.gateway_response, data.display_text)
Json(status, code, message, data_status, gateway_response, display_text) ==
    [kind |-> "json", status |-> status, code |-> code, message |-> message,
     data_status |-> data_status, gateway_response |-> gateway_response,
     display_text |-> display_text]

GatewayTimeout == [kind |-> "timeout"]

GatewayError(text) == [kind |-> "error", text |-> text]

GatewayReplies ==
    { GatewayTimeout,
      GatewayError("Connection refused"),
      GatewayError("HTTPSConnectionPool(host='api.paystack.co', port=443): "
                       \o "Max retries exceeded with url: /charge"),
      Json(FALSE, "duplicate_reference", "Duplicate Transaction Reference", "", "", ""),
      Json(TRUE, "", "Charge attempted", "send_otp", "", ""),
      Json(TRUE, "", "Charge attempted", "send_otp", "", "Approve on your phone"),
      Json(TRUE, "", "Charge attempted", "send_pin", "", ""),
      Json(TRUE, "", "Charge attempted", "success", "", ""),
      Json(TRUE, "", "Charge attempted", "pending", "", ""),
      Json(TRUE, "", "Charge attempted", "pay_offline", "", ""),
      Json(TRUE, "", "Charge attempted", "failed", "Use the voucher code", ""),
      Json(TRUE, "", "Charge attempted", "failed", "Transaction failed", ""),
      Json(FALSE, "", "Dial the USSD voucher code", "", "", ""),
      Json(FALSE, "", "Insufficient funds", "", "", ""),
      Json(FALSE, "", "Charge failed", "", "", "") }

MaxAttempts == 3

\* what a pass through the loop body does with the gateway's reply r
Returns(result) == [returns |-> TRUE, result |-> result]

Continues == [returns |-> FALSE, result |-> PayFail("")]

\* a loop body that returns the failure on the first timeout or exception
ChargeAttempt_no_retry(network, r, attempt) ==
    LET last == TRUE
        again == Continues
    IN  CASE r.kind = "timeout" ->
                IF last THEN Returns(PayFail("Payment request timed out")) ELSE again
          [] r.kind = "error" ->
                IF last THEN Returns(PayFail("Payment error: " \o r.text)) ELSE again
          [] r.kind = "json" ->
                IF ~r.status /\ r.code = "duplicate_reference"
                THEN Returns(PayFail(r.message))
                ELSE IF r.status THEN Returns(PayOk("Payment initiated", None))
                ELSE Returns(PayFail(r.message))

\* the body of the loop of paystack_payment, pass number `attempt` (0-based)
ChargeAttempt(network, r, attempt) ==
    LET last == attempt = 2
        again == Continues
    IN  CASE r.kind = "timeout" ->
                IF last THEN Returns(PayFail("Payment request timed out")) ELSE again
          [] r.kind = "error" ->
                IF last THEN Returns(PayFail("Payment error: " \o r.text)) ELSE again
          [] r.kind = "json" ->
                IF ~r.status /\ r.code = "duplicate_reference" THEN again
                ELSE IF r.status THEN
                    CASE r.data_status = "send_otp" ->
                            Returns(PayOk("STK Push sent",
                                  IF r.display_text = ""
                                  THEN "Please check your " \o Upper(network)
                                           \o " phone and approve the payment request"
                                  ELSE r.display_text))
                      [] r.data_status = "send_pin" ->
                            Returns(PayOk("Enter your mobile money PIN",
                                  "Enter your " \o Upper(network)
                                      \o " mobile money PIN to complete payment"))
                      [] r.data_status = "success" ->
                            Returns(PayOk("Payment completed successfully", None))
                      [] r.data_status = "pending" ->
                            Returns(PayOk("Payment is being processed",
                                  "Please approve the payment request on your "
                                      \o Upper(network) \o " phone"))
                      [] r.data_status = "failed" ->
                            Returns(PayFail(r.gateway_response))
                      [] OTHER ->
                            Returns(PayOk("Payment initiated",
                                  "Please check your " \o Upper(network)
                                      \o " phone and approve the payment request"))
                ELSE
                    LET error_msg == r.message
                        low == Lower(error_msg)
                    IN  IF Contains(low, "voucher") \/ Contains(low, "ussd") THEN
                            IF attempt < 2 THEN again
                            ELSE Returns(PayFail("STK Push not available, please try again"))
                        ELSE IF \E w \in {"insufficient", "invalid", "declined"} :
                                    Contains(low, w)
                            THEN Returns(PayFail(error_msg))
                        ELSE IF attempt = 2 THEN Returns(PayFail(error_msg))
                        ELSE again

\* the loop of paystack_payment from pass number `attempt` (0-based) on
RECURSIVE PaymentLoop(_, _, _)
PaymentLoop(network, replies, attempt) ==
    IF attempt >= MaxAttempts THEN PayFail("Payment failed after multiple attempts")
    ELSE LET pass == ChargeAttempt(network, replies[attempt + 1], attempt)
         IN  IF pass.returns THEN pass.result
             ELSE PaymentLoop(network, replies, attempt + 1)

\* paystack_payment(msisdn, amount, network) when the gateway answers the
\* successive requests with replies[1], replies[2], replies[3]
paystack_payment(secret_key, network, replies) ==
    IF ~secret_key THEN PayFail("Payment not configured")
    ELSE IF Lower(network) \notin DOMAIN NetworkMapping THEN PayFail("Unsupported network")
    ELSE PaymentLoop(network, replies, 0)

\* paystack_payment_alternative: one initialize request, then one charge
paystack_payment_alternative(secret_key, network, init_reply, charge_reply) ==
    IF ~secret_key THEN PayFail("Payment not configured")
    ELSE IF Lower(network) \notin DOMAIN NetworkMapping THEN PayFail("Unsupported network")
    ELSE IF init_reply.kind = "timeout" THEN PayFail("Payment error: timed out")
    ELSE IF init_reply.kind = "error" THEN PayFail("Payment error: " \o init_reply.text)
    ELSE IF ~init_reply.status THEN PayFail(init_reply.message)
    ELSE IF charge_reply.kind = "timeout" THEN PayFail("Payment error: timed out")
    ELSE IF charge_reply.kind = "error" THEN PayFail("Payment error: " \o charge_reply.text)
    ELSE IF charge_reply.status
            /\ charge_reply.data_status \in {"send_otp", "send_pin", "pending"}
        THEN PayOk("STK Push sent",
                   "Please approve the payment request on your "
                       \o Upper(network) \o " phone")
    ELSE IF charge_reply.status /\ charge_reply.data_status = "success"
        THEN PayOk("Payment completed successfully", None)
    ELSE PayFail(charge_reply.message)

Networks == {"mtn", "vodafone", "airteltigo"}

\* the function sends requests only with a key and a supported network
SendsRequests(key, network) == key /\ Lower(network) \in DOMAIN NetworkMapping

\* <<secret key set, network, result>> for every result paystack_payment can
\* return, over all the ways the gateway can answer its requests
MainResults ==
    UNION { { <<key, network, paystack_payment(key, network, replies)>> :
                  replies \in IF SendsRequests(key, network)
                              THEN [1..MaxAttempts -> GatewayReplies]
                              ELSE {[a \in 1..MaxAttempts |-> GatewayTimeout]} } :
            key \in BOOLEAN, network \in Networks \cup {""} }

\* the same for paystack_payment_alternative
AlternativeResults ==
    UNION { { <<key, network, paystack_payment_alternative(key, network, i, c)>> :
                  i \in IF SendsRequests(key, network) THEN GatewayReplies
                        ELSE {GatewayTimeout},
                  c \in IF SendsRequests(key, network) THEN GatewayReplies
                        ELSE {GatewayTimeout} } :
            key \in BOOLEAN, network \in Networks \cup {""} }

\* lines 713-728: the main method, then the alternative when the main one
\* fails with a message that mentions a voucher
ConfirmResults ==
    UNION { IF ~m[3].status /\ Contains(Lower(m[3].message), "voucher")
            THEN {a \in AlternativeResults : a[1] = m[1] /\ a[2] = m[2]}
            ELSE {m} : m \in MainResults }

PaymentResults(secret_key, network) ==
    {t[3] : t \in {u \in ConfirmResults : u[1] = secret_key /\ u[2] = network}}

-----------------------------------------------------------------------------
(* Payment and confirmation handlers *)

\* [f"{qty} x {item[0]} - GHS {item[1]*qty}" for item, qty in session["cart"]]
SummaryLines(cart) ==
    [i \in 1..Len(cart) |->
        Str(cart[i][2]) \o " x " \o cart[i][1][1] \o " - GHS "
            \o Str(cart[i][1][2] * cart[i][2])]

\* show_confirmation that shows the total without storing it in the session
show_confirmation_not_stored(session, msisdn) ==
    LET total == OrderTotal(session.cart)
        payment_info == IF session.payment_method = "Cash" THEN "Cash"
                        ELSE "MoMo (" \o Upper(session.network) \o ")"
        msg == "Order Summary:\n" \o Join(SummaryLines(session.cart))
                   \o "\nDelivery: GHS " \o Str(DeliveryFee(ItemCount(session.cart)))
                   \o "\nService: GHS " \o Str(ExtraCharge)
                   \o "\nPayment: " \o payment_info
                   \o "\nTotal: GHS " \o Str(total) \o "\n1. Confirm\n2. Cancel"
    IN  Out(session, ussd_response(msisdn, msg, TRUE))

\* show_confirmation charging the step for every item, the first included
show_confirmation_step_per_item(session, msisdn) ==
    LET item_count == ItemCount(session.cart)
        delivery_fee == IF item_count > 0 THEN 15 + item_count * 5 ELSE 0
        total == ItemsTotal(session.cart) + delivery_fee + ExtraCharge
        payment_info == IF session.payment_method = "Cash" THEN "Cash"
                        ELSE "MoMo (" \o Upper(session.network) \o ")"
        msg == "Order Summary:\n" \o Join(SummaryLines(session.cart))
                   \o "\nDelivery: GHS " \o Str(delivery_fee)
                   \o "\nService: GHS " \o Str(ExtraCharge)
                   \o "\nPayment: " \o payment_info
                   \o "\nTotal: GHS " \o Str(total) \o "\n1. Confirm\n2. Cancel"
    IN  Out([session EXCEPT !.total = total], ussd_response(msisdn, msg, TRUE))

show_confirmation(session, msisdn) ==
    LET item_count == ItemCount(session.cart)
        delivery_fee == DeliveryFee(item_count)
        total == ItemsTotal(session.cart) + delivery_fee + ExtraCharge
        payment_info == IF session.payment_method = "Cash" THEN "Cash"
                        ELSE "MoMo (" \o Upper(session.network) \o ")"
        msg == "Order Summary:\n" \o Join(SummaryLines(session.cart))
                   \o "\nDelivery: GHS " \o Str(delivery_fee)
                   \o "\nService: GHS " \o Str(ExtraCharge)
                   \o "\nPayment: " \o payment_info
                   \o "\nTotal: GHS " \o Str(total) \o "\n1. Confirm\n2. Cancel"
    IN  Out([session EXCEPT !.total = total], ussd_response(msisdn, msg, TRUE))

handle_payment_method(input_text, session, msisdn) ==
    IF input_text = "1" THEN
        Out([session EXCEPT !.payment_method = "Mobile Money", !.state = "MOMO_NETWORK"],
            ussd_response(msisdn, NetworkMsg, TRUE))
    ELSE IF input_text = "2" THEN
        show_confirmation([session EXCEPT !.payment_method = "Cash", !.state = "CONFIRM"],
                          msisdn)
    ELSE IF input_text = "#" THEN
        Out([session EXCEPT !.state = "DELIVERY"],
            ussd_response(msisdn, DeliveryMsg, TRUE))
    ELSE Out(session, ussd_response(msisdn, PaymentMsg, TRUE))

Nets == [c \in {"1", "2", "3"} |->
            CASE c = "1" -> "mtn" [] c = "2" -> "vodafone" [] c = "3" -> "airteltigo"]

handle_momo_network(input_text, session, msisdn) ==
    IF input_text = "#" THEN
        Out([session EXCEPT !.state = "PAYMENT_METHOD"],
            ussd_response(msisdn, PaymentMsg, TRUE))
    ELSE IF input_text \in DOMAIN Nets THEN
        Out([session EXCEPT !.network = Nets[input_text], !.state = "MOMO_NUMBER"],
            ussd_response(msisdn, MomoNumberMsg(msisdn), TRUE))
    ELSE Out(session, ussd_response(msisdn, NetworkMsg, TRUE))

\* handle_momo_number not keeping the subscriber's own number on "1"
handle_momo_number_not_stored(input_text, session, msisdn) ==
    IF input_text = "1" THEN
        show_confirmation([session EXCEPT !.state = "CONFIRM"], msisdn)
    ELSE IF validate_phone_number(input_text) THEN
        show_confirmation([session EXCEPT !.momo_number = input_text, !.state = "CONFIRM"],
                          msisdn)
    ELSE Out(session, ussd_response(msisdn, MomoNumberMsg(msisdn), TRUE))

handle_momo_number(input_text, session, msisdn) ==
    IF input_text = "1" THEN
        show_confirmation([session EXCEPT !.momo_number = msisdn, !.state = "CONFIRM"],
                          msisdn)
    ELSE IF validate_phone_number(input_text) THEN
        show_confirmation([session EXCEPT !.momo_number = input_text, !.state = "CONFIRM"],
                          msisdn)
    ELSE Out(session, ussd_response(msisdn, MomoNumberMsg(msisdn), TRUE))

\* create_order: the receipt appended to the history and, when the orders
\* table is configured and the call does not raise, the row created
OrderItems(cart) ==
    [i \in 1..Len(cart) |->
        [name |-> cart[i][1][1], price |-> cart[i][1][2], quantity |-> cart[i][2]]]

\* create_order without the try/except around the store call: a raising
\* store leaves the function before the receipt is appended
create_order_store_unguarded(session, msisdn, order_id, airtable_orders, store_ok) ==
    LET total == OrderTotal(session.cart)
        row == [OrderID |-> order_id,
                MSISDN |-> msisdn,
                Items |-> OrderItems(session.cart),
                Total |-> total,
                DeliveryLocation |-> session.delivery_location,
                PaymentMethod |-> session.payment_method,
                Status |-> "Processing",
                CreatedAt |-> get_airtable_datetime]
        receipt == [order_id |-> order_id, total |-> total,
                    created_at |-> get_airtable_datetime]
        raised == airtable_orders /\ ~store_ok
    IN  [session |-> IF raised THEN session
                     ELSE [session EXCEPT !.order_history = Append(@, receipt)],
         rows |-> IF airtable_orders /\ store_ok THEN <<row>> ELSE <<>>,
         order_id |-> order_id]

\* create_order that leaves the service charge out of the order's total
create_order_without_charge(session, msisdn, order_id, airtable_orders, store_ok) ==
    LET total == ItemsTotal(session.cart) + DeliveryFee(ItemCount(session.cart))
        row == [OrderID |-> order_id,
                MSISDN |-> msisdn,
                Items |-> OrderItems(session.cart),
                Total |-> total,
                DeliveryLocation |-> session.delivery_location,
                PaymentMethod |-> session.payment_method,
                Status |-> "Processing",
                CreatedAt |-> get_airtable_datetime]
        receipt == [order_id |-> order_id, total |-> total,
                    created_at |-> get_airtable_datetime]
    IN  [session |-> [session EXCEPT !.order_history = Append(@, receipt)],
         rows |-> IF airtable_orders /\ store_ok THEN <<row>> ELSE <<>>,
         order_id |-> order_id]

create_order(session, msisdn, order_id, airtable_orders, store_ok) ==
    LET total == OrderTotal(session.cart)
        row == [OrderID |-> order_id,
                MSISDN |-> msisdn,
                Items |-> OrderItems(session.cart),
                Total |-> total,
                DeliveryLocation |-> session.delivery_location,
                PaymentMethod |-> session.payment_method,
                Status |-> "Processing",
                CreatedAt |-> get_airtable_datetime]
        receipt == [order_id |-> order_id, total |-> total,
                    created_at |-> get_airtable_datetime]
    IN  [session |-> [session EXCEPT !.order_history = Append(@, receipt)],
         rows |-> IF airtable_orders /\ store_ok THEN <<row>> ELSE <<>>,
         order_id |-> order_id]

\* lines 714-718: the amount handle_confirm hands to paystack_payment
PaymentAmount(session) == session.total

\* line 235: int(amount * 100), the amount in pesewas sent to the gateway
ChargeAmount(amount) == amount * 100

\* handle_confirm without the cancel branch: "2" shows the summary again
handle_confirm_no_cancel(input_text, session, msisdn, order_id, airtable_orders, store_ok, pay_resp) ==
    IF input_text = "1" THEN
        LET created == create_order(session, msisdn, order_id, airtable_orders, store_ok)
            placed == [created.session EXCEPT !.cart = <<>>, !.state = "MAIN_MENU"]
        IN  IF session.payment_method = "Mobile Money" THEN
                IF pay_resp.status THEN
                    [session |-> placed,
                     response |-> ussd_response(msisdn,
                         "Order #" \o order_id \o " created!\nThanks!", FALSE),
                     rows |-> created.rows, drawn |-> 1]
                ELSE [session |-> created.session,
                      response |-> ussd_response(msisdn,
                          "Payment failed: " \o pay_resp.message
                              \o "\n1. Retry\n2. Cancel", TRUE),
                      rows |-> created.rows, drawn |-> 1]
            ELSE [session |-> placed,
                  response |-> ussd_response(msisdn,
                      "Order #" \o order_id
                          \o " placed!\nPay cash on delivery. Thanks!", FALSE),
                  rows |-> created.rows, drawn |-> 1]
    ELSE show_confirmation(session, msisdn)

\* handle_confirm that creates the order of a Mobile Money payment only once
\* the payment is accepted
handle_confirm_order_when_paid(input_text, session, msisdn, order_id, airtable_orders, store_ok, pay_resp) ==
    IF input_text = "2" THEN
        handle_main_menu("", [session EXCEPT !.cart = <<>>, !.state = "MAIN_MENU"],
                         msisdn)
    ELSE IF input_text = "1" THEN
        LET created == create_order(session, msisdn, order_id, airtable_orders, store_ok)
            placed == [created.session EXCEPT !.cart = <<>>, !.state = "MAIN_MENU"]
        IN  IF session.payment_method = "Mobile Money" THEN
                IF pay_resp.status THEN
                    [session |-> placed,
                     response |-> ussd_response(msisdn,
                         "Order #" \o order_id \o " created!\nThanks!", FALSE),
                     rows |-> created.rows, drawn |-> 1]
                ELSE [session |-> session,
                      response |-> ussd_response(msisdn,
                          "Payment failed: " \o pay_resp.message
                              \o "\n1. Retry\n2. Cancel", TRUE),
                      rows |-> <<>>, drawn |-> 0]
            ELSE [session |-> placed,
                  response |-> ussd_response(msisdn,
                      "Order #" \o order_id
                          \o " placed!\nPay cash on delivery. Thanks!", FALSE),
                  rows |-> created.rows, drawn |-> 1]
    ELSE show_confirmation(session, msisdn)

handle_confirm(input_text, session, msisdn, order_id, airtable_orders, store_ok, pay_resp) ==
    IF input_text = "2" THEN
        handle_main_menu("", [session EXCEPT !.cart = <<>>, !.state = "MAIN_MENU"],
                         msisdn)
    ELSE IF input_text = "1" THEN
        LET created == create_order(session, msisdn, order_id, airtable_orders, store_ok)
            placed == [created.session EXCEPT !.cart = <<>>, !.state = "MAIN_MENU"]
        IN  IF session.payment_method = "Mobile Money" THEN
                IF pay_resp.status THEN
                    LET payment_msg ==
                            IF pay_resp.display_text = None
                            THEN "Check your phone for payment prompt"
                            ELSE pay_resp.display_text
                    IN  [session |-> placed,
                         response |-> ussd_response(msisdn,
                             "Order #" \o order_id \o " created!\n" \o payment_msg
                                 \o "\nThanks!", FALSE),
                         rows |-> created.rows, drawn |-> 1]
                ELSE [session |-> created.session,
                      response |-> ussd_response(msisdn,
                          "Payment failed: " \o pay_resp.message
                              \o "\n1. Retry\n2. Cancel", TRUE),
                      rows |-> created.rows, drawn |-> 1]
            ELSE [session |-> placed,
                  response |-> ussd_response(msisdn,
                      "Order #" \o order_id
                          \o " placed!\nPay cash on delivery. Thanks!", FALSE),
                  rows |-> created.rows, drawn |-> 1]
    ELSE show_confirmation(session, msisdn)

-----------------------------------------------------------------------------
(* The requests the model sends *)

Subscriber == "233241234567"

\* MSISDN of a request: a subscriber, a missing one, two of the wrong format
Msisdns == {Subscriber, "", "0241234567", "233141234567"}

\* USERDATA of a request
RawInputs ==
    {"", "0", "1", "2", "5", "#", "*1", "21", " 2 ", "<1>", "ab", "Accra",
     "233501234567"}

-----------------------------------------------------------------------------
(* ussd_handler *)

States ==
    {"MAIN_MENU", "CATEGORY", "ITEM", "QTY", "CART", "DELIVERY", "PAYMENT_METHOD",
     "MOMO_NETWORK", "MOMO_NUMBER", "CONFIRM"}

\* lines 494-517: the handler of the session's state
Dispatch(state, input_text, session, msisdn, order_id, airtable_orders, store_ok, pay_resp) ==
    CASE state = "MAIN_MENU" -> handle_main_menu(input_text, session, msisdn)
      [] state = "CATEGORY" -> handle_category(input_text, session, msisdn)
      [] state = "ITEM" -> handle_item(input_text, session, msisdn)
      [] state = "QTY" -> handle_quantity(input_text, session, msisdn)
      [] state = "CART" -> handle_cart(input_text, session, msisdn)
      [] state = "DELIVERY" -> handle_delivery(input_text, session, msisdn)
      [] state = "PAYMENT_METHOD" -> handle_payment_method(input_text, session, msisdn)
      [] state = "MOMO_NETWORK" -> handle_momo_network(input_text, session, msisdn)
      [] state = "MOMO_NUMBER" -> handle_momo_number(input_text, session, msisdn)
      [] state = "CONFIRM" ->
            handle_confirm(input_text, session, msisdn, order_id, airtable_orders,
                           store_ok, pay_resp)
      [] OTHER -> handle_main_menu("", [session EXCEPT !.state = "MAIN_MENU"], msisdn)

\* the request is answered at the boundary (lines 478-484)
Rejected(msisdn) == msisdn = "" \/ ~validate_phone_number(msisdn)

RejectResponse(msisdn) ==
    IF msisdn = "" THEN ussd_response("unknown", "No phone number provided.", FALSE)
    ELSE ussd_response(msisdn, "Phone must start with 233. Got: " \o msisdn, FALSE)

\* one more request is served
Served == requests_left > 0 /\ requests_left' = requests_left - 1

\* the MSISDNs that pass and that fail the test at the boundary
RejectedMsisdns == {msisdn \in Msisdns : Rejected(msisdn)}

AcceptedMsisdns == Msisdns \ RejectedMsisdns

\* input_text of line 471 for each USERDATA sent
InputTexts == {sanitize_input(raw) : raw \in RawInputs}

\* one request of an accepted subscriber, input_text being its sanitized
\* USERDATA; store_ok: the orders table accepts the row; pay_resp: the
\* result of the payment
Turn(msisdn, input_text, store_ok, pay_resp) ==
    LET session == get_session(memory_sessions, msisdn)
        out == Dispatch(session.state, input_text, session, msisdn,
                        OrderIdText(uuid_counter + 1), env.airtable_orders,
                        store_ok, pay_resp)
    IN  /\ Served
        /\ Len(out.session.cart) <= MaxCart
        /\ uuid_counter + out.drawn <= MaxOrders
        /\ memory_sessions' = save_session(memory_sessions, msisdn, out.session)
        /\ orders_table' = orders_table \o out.rows
        /\ uuid_counter' = uuid_counter + out.drawn
        /\ response' = out.response
        /\ UNCHANGED <<env, in_progress>>

NoPay == PayFail("")

\* a request whose handler neither stores an order nor pays
PlainTurn(msisdn, input_text) == Turn(msisdn, input_text, TRUE, NoPay)

\* the request finds the subscriber's session in `state`
InState(msisdn, state) == get_session(memory_sessions, msisdn).state = state

MainMenuTurn(msisdn, input_text) ==
    /\ InState(msisdn, "MAIN_MENU")
    /\ PlainTurn(msisdn, input_text)

CategoryTurn(msisdn, input_text) ==
    /\ InState(msisdn, "CATEGORY")
    /\ PlainTurn(msisdn, input_text)

ItemTurn(msisdn, input_text) ==
    /\ InState(msisdn, "ITEM")
    /\ PlainTurn(msisdn, input_text)

QuantityTurn(msisdn, input_text) ==
    /\ InState(msisdn, "QTY")
    /\ PlainTurn(msisdn, input_text)

CartTurn(msisdn, input_text) ==
    /\ InState(msisdn, "CART")
    /\ PlainTurn(msisdn, input_text)

DeliveryTurn(msisdn, input_text) ==
    /\ InState(msisdn, "DELIVERY")
    /\ PlainTurn(msisdn, input_text)

PaymentMethodTurn(msisdn, input_text) ==
    /\ InState(msisdn, "PAYMENT_METHOD")
    /\ PlainTurn(msisdn, input_text)

MomoNetworkTurn(msisdn, input_text) ==
    /\ InState(msisdn, "MOMO_NETWORK")
    /\ PlainTurn(msisdn, input_text)

MomoNumberTurn(msisdn, input_text) ==
    /\ InState(msisdn, "MOMO_NUMBER")
    /\ PlainTurn(msisdn, input_text)

ConfirmTurn(msisdn, input_text) ==
    /\ InState(msisdn, "CONFIRM")
    /\ LET session == get_session(memory_sessions, msisdn)
           creates == input_text = "1"
           pays == creates /\ session.payment_method = "Mobile Money"
       IN  \E store_ok \in (IF creates /\ env.airtable_orders THEN BOOLEAN ELSE {TRUE}) :
             \E pay_resp \in (IF pays
                              THEN PaymentResults(env.PAYSTACK_SECRET_KEY, session.network)
                              ELSE {NoPay}) :
                Turn(msisdn, input_text, store_ok, pay_resp)

\* a request rejected for its MSISDN: no session is read or written
RejectedTurn(msisdn) ==
    /\ Served
    /\ response' = RejectResponse(msisdn)
    /\ UNCHANGED <<memory_sessions, orders_table, uuid_counter, env, in_progress>>

\* a request without a JSON body
InvalidRequestTurn ==
    /\ Served
    /\ response' = InvalidRequest
    /\ UNCHANGED <<memory_sessions, orders_table, uuid_counter, env, in_progress>>

NoResponse == [code |-> 0]

\* no call of paystack_payment is running
NoCharge == [pc |-> "idle"]

\* the server threads
Slots == {1, 2}

\* a thread that handles no request
IdleThread == [pc |-> "idle"]

\* nothing received since the sessions were `sessions`
AtRest(sessions) == [start |-> sessions, reqs |-> <<>>]

\* the service right after start-up, with any configuration
Started ==
    /\ memory_sessions = [m \in {} |-> NewSession(m)]
    /\ orders_table = <<>>
    /\ uuid_counter = 0
    /\ env \in [PAYSTACK_SECRET_KEY : BOOLEAN, airtable_orders : BOOLEAN]
    /\ response = NoResponse
    /\ charge = NoCharge
    /\ threads = [slot \in Slots |-> IdleThread]
    /\ window = AtRest(memory_sessions)

Init == Started /\ requests_left = MaxRequests

Next ==
    \/ InvalidRequestTurn
    \/ \E msisdn \in RejectedMsisdns : RejectedTurn(msisdn)
    \/ \E msisdn \in AcceptedMsisdns, input_text \in InputTexts :
        \/ MainMenuTurn(msisdn, input_text)
        \/ CategoryTurn(msisdn, input_text)
        \/ ItemTurn(msisdn, input_text)
        \/ QuantityTurn(msisdn, input_text)
        \/ CartTurn(msisdn, input_text)
        \/ DeliveryTurn(msisdn, input_text)
        \/ PaymentMethodTurn(msisdn, input_text)
        \/ MomoNetworkTurn(msisdn, input_text)
        \/ MomoNumberTurn(msisdn, input_text)
        \/ ConfirmTurn(msisdn, input_text)

\* every request, every configuration, runs of MaxRequests requests
Spec == Init /\ [][Next]_vars

-----------------------------------------------------------------------------
(* Longer runs of one subscriber who answers the prompts: the inputs are   *)
(* the menu choices, back and a location                                   *)

OrderInputs == {"1", "2", "#", "Accra"}

InitOrder == Started /\ requests_left = MaxOrderRequests

NextOrder ==
    \E input_text \in OrderInputs :
        \/ MainMenuTurn(Subscriber, input_text)
        \/ CategoryTurn(Subscriber, input_text)
        \/ ItemTurn(Subscriber, input_text)
        \/ QuantityTurn(Subscriber, input_text)
        \/ CartTurn(Subscriber, input_text)
        \/ DeliveryTurn(Subscriber, input_text)
        \/ PaymentMethodTurn(Subscriber, input_text)
        \/ MomoNetworkTurn(Subscriber, input_text)
        \/ MomoNumberTurn(Subscriber, input_text)
        \/ ConfirmTurn(Subscriber, input_text)

SpecOrder == InitOrder /\ [][NextOrder]_vars

-----------------------------------------------------------------------------
(* The session of a subscriber before and after a step *)

Before(msisdn) == get_session(memory_sessions, msisdn)

After(msisdn) == memory_sessions'[msisdn]

IsUssd(resp) == resp.code = 200

\* the items of the catalog
CatalogItems ==
    UNION { {MENUS[cat][i] : i \in 1..Len(MENUS[cat])} : cat \in DOMAIN MENUS }

\* the input texts of the model that are integers in [1,20], with their value
ValidQuantities == {<<"1", 1>>, <<"2", 2>>, <<"5", 5>>}

-----------------------------------------------------------------------------
(* C1: in state QTY, an input that is an integer in [1,20] appends exactly *)
(* one entry, the selected item (an item of the selected category) with    *)
(* that quantity, to the end of the cart, leaves the earlier entries as    *)
(* they were, and moves the session to CART with continue = true.          *)

C1_QuantityAppendsOneEntry ==
    [][\A msisdn \in AcceptedMsisdns, q \in ValidQuantities :
          (InState(msisdn, "QTY") /\ QuantityTurn(msisdn, q[1])) =>
              LET old == Before(msisdn)
                  new == After(msisdn)
              IN  /\ new.cart = old.cart \o <<<<old.selected_item, q[2]>>>>
                  /\ old.selected_category \in DOMAIN MENUS
                  /\ \E i \in 1..Len(MENUS[old.selected_category]) :
                        MENUS[old.selected_category][i] = old.selected_item
                  /\ new.state = "CART"
                  /\ new.order_history = old.order_history
                  /\ IsUssd(response') /\ response'.MSGTYPE = TRUE]_vars

\* a quantity has been added to a cart that already held an entry
C1_Witness ==
    \E msisdn \in DOMAIN memory_sessions :
        /\ memory_sessions[msisdn].state = "CART"
        /\ Len(memory_sessions[msisdn].cart) = 2
        /\ IsUssd(response) /\ Contains(response.MSG, "added to cart")

-----------------------------------------------------------------------------
(* C2: a "1" delivered again to a session in CONFIRM whose previous "1"    *)
(* already created the order (the "1. Retry" after a failed payment)       *)
(* creates no second order: the history and the orders table do not grow.  *)

C2_RetryCreatesNoSecondOrder ==
    [][\A msisdn \in AcceptedMsisdns :
          (/\ InState(msisdn, "CONFIRM")
           /\ IsUssd(response) /\ Contains(response.MSG, "1. Retry")
           /\ ConfirmTurn(msisdn, "1")) =>
              /\ After(msisdn).order_history = Before(msisdn).order_history
              /\ orders_table' = orders_table]_vars

-----------------------------------------------------------------------------
(* C3: cancelling with "2" in CONFIRM or with "#" in CART returns to       *)
(* MAIN_MENU with the cart empty and every per-order field of the session  *)
(* (delivery location, payment method, network, MoMo number, selected      *)
(* item) reset to its initial empty value.                                 *)

C3_CancelResetsOrderFields ==
    [][\A msisdn \in AcceptedMsisdns :
          (\/ InState(msisdn, "CONFIRM") /\ ConfirmTurn(msisdn, "2")
           \/ InState(msisdn, "CART") /\ CartTurn(msisdn, "#")) =>
              LET new == After(msisdn)
              IN  /\ new.state = "MAIN_MENU"
                  /\ new.cart = <<>>
                  /\ new.delivery_location = ""
                  /\ new.payment_method = ""
                  /\ new.network = ""
                  /\ new.momo_number = ""
                  /\ new.selected_item = NoneItem]_vars

-----------------------------------------------------------------------------
(* C4: after a turn answered with continue = false, the stored session of  *)
(* the subscriber is in MAIN_MENU with an empty cart.                      *)

C4_TerminalResponseLeavesFreshSession ==
    (IsUssd(response) /\ ~response.MSGTYPE /\ response.MSISDN \in DOMAIN memory_sessions)
        => /\ memory_sessions[response.MSISDN].state = "MAIN_MENU"
           /\ memory_sessions[response.MSISDN].cart = <<>>

-----------------------------------------------------------------------------
(* C5: "#" is a uniform back operator: in CATEGORY, ITEM, QTY, DELIVERY,   *)
(* PAYMENT_METHOD, MOMO_NETWORK, MOMO_NUMBER and CONFIRM it moves the      *)
(* session to the state it was entered from and leaves the cart and the    *)
(* delivery and payment fields unchanged.                                  *)

\* the state each state is entered from
BackOf(session) ==
    CASE session.state = "CATEGORY" -> "MAIN_MENU"
      [] session.state = "ITEM" -> "CATEGORY"
      [] session.state = "QTY" -> "ITEM"
      [] session.state = "DELIVERY" -> "CART"
      [] session.state = "PAYMENT_METHOD" -> "DELIVERY"
      [] session.state = "MOMO_NETWORK" -> "PAYMENT_METHOD"
      [] session.state = "MOMO_NUMBER" -> "MOMO_NETWORK"
      [] session.state = "CONFIRM" ->
            IF session.payment_method = "Cash" THEN "PAYMENT_METHOD" ELSE "MOMO_NUMBER"

BackStates ==
    {"CATEGORY", "ITEM", "QTY", "DELIVERY", "PAYMENT_METHOD", "MOMO_NETWORK",
     "MOMO_NUMBER", "CONFIRM"}

\* some handler serves the request
AnyTurn(msisdn, input_text) ==
    \/ MainMenuTurn(msisdn, input_text)
    \/ CategoryTurn(msisdn, input_text)
    \/ ItemTurn(msisdn, input_text)
    \/ QuantityTurn(msisdn, input_text)
    \/ CartTurn(msisdn, input_text)
    \/ DeliveryTurn(msisdn, input_text)
    \/ PaymentMethodTurn(msisdn, input_text)
    \/ MomoNetworkTurn(msisdn, input_text)
    \/ MomoNumberTurn(msisdn, input_text)
    \/ ConfirmTurn(msisdn, input_text)

C5_HashIsUniformBack ==
    [][\A msisdn \in AcceptedMsisdns :
          (Before(msisdn).state \in BackStates /\ AnyTurn(msisdn, "#")) =>
              LET old == Before(msisdn)
                  new == After(msisdn)
              IN  /\ new.state = BackOf(old)
                  /\ new.cart = old.cart
                  /\ new.delivery_location = old.delivery_location
                  /\ new.payment_method = old.payment_method
                  /\ new.network = old.network
                  /\ new.momo_number = old.momo_number]_vars

-----------------------------------------------------------------------------
(* C6: in state QTY the input "#" moves the session back to ITEM and adds  *)
(* nothing to the cart.                                                    *)

C6_HashInQtyGoesBackToItem ==
    [][\A msisdn \in AcceptedMsisdns :
          (InState(msisdn, "QTY") /\ QuantityTurn(msisdn, "#")) =>
              /\ After(msisdn).state = "ITEM"
              /\ After(msisdn).cart = Before(msisdn).cart]_vars

-----------------------------------------------------------------------------
(* C7: in state DELIVERY the input "#" moves the session back to CART with *)
(* the cart and the stored delivery location unchanged.                    *)

C7_HashInDeliveryGoesBackToCart ==
    [][\A msisdn \in AcceptedMsisdns :
          (InState(msisdn, "DELIVERY") /\ DeliveryTurn(msisdn, "#")) =>
              /\ After(msisdn).state = "CART"
              /\ After(msisdn).cart = Before(msisdn).cart
              /\ After(msisdn).delivery_location = Before(msisdn).delivery_location]_vars

-----------------------------------------------------------------------------
(* C8: an in-flow validation error never changes state: a wrong menu       *)
(* choice (MAIN_MENU, CATEGORY, ITEM, CART, PAYMENT_METHOD, MOMO_NETWORK), *)
(* a quantity that is no integer in [1,20] (QTY), a location shorter than  *)
(* 3 characters (DELIVERY) or an invalid number (MOMO_NUMBER) leaves the   *)
(* session's state, cart and order history as they were and is answered    *)
(* with the prompt of the same state and continue = true.                  *)

\* the input texts of the model that are validation errors in a state
InvalidInputs(state) ==
    CASE state = "MAIN_MENU" -> {"5", "21", "ab", "Accra", "233501234567"}
      [] state = "CATEGORY" -> InputTexts \ {"1", "2", "3", "4", "#"}
      [] state = "ITEM" -> InputTexts \ {"1", "2", "3", "#"}
      [] state = "QTY" -> InputTexts \ {"1", "2", "5"}
      [] state = "CART" -> InputTexts \ {"1", "2", "#"}
      [] state = "DELIVERY" -> {t \in InputTexts : Len(t) < 3}
      [] state = "PAYMENT_METHOD" -> InputTexts \ {"1", "2", "#"}
      [] state = "MOMO_NETWORK" -> InputTexts \ {"1", "2", "3", "#"}
      [] state = "MOMO_NUMBER" -> InputTexts \ {"1", "233501234567"}
      [] OTHER -> {}

\* a text that only the prompt of the session's state holds
PromptKey(session) ==
    CASE session.state = "MAIN_MENU" -> "Welcome to FLAP Dish!\n1. Order Food"
      [] session.state = "CATEGORY" -> "Select Category:"
      [] session.state = "ITEM" -> session.selected_category \o ":\n1. "
      [] session.state = "QTY" -> "Enter quantity (1-20):"
      [] session.state = "CART" -> "1. Add more\n2. Checkout"
      [] session.state = "DELIVERY" -> "Enter delivery location"
      [] session.state = "PAYMENT_METHOD" -> "Select payment:"
      [] session.state = "MOMO_NETWORK" -> "Choose Network:"
      [] session.state = "MOMO_NUMBER" -> "Enter MoMo number"

C8_ValidationErrorKeepsState ==
    [][\A msisdn \in AcceptedMsisdns :
          \A t \in InvalidInputs(Before(msisdn).state) :
              AnyTurn(msisdn, t) =>
                  LET old == Before(msisdn)
                      new == After(msisdn)
                  IN  /\ new.state = old.state
                      /\ new.cart = old.cart
                      /\ new.order_history = old.order_history
                      /\ orders_table' = orders_table
                      /\ IsUssd(response') /\ response'.MSGTYPE = TRUE
                      /\ Contains(response'.MSG, PromptKey(old))]_vars

\* a location of fewer than 3 characters has been refused, the cart filled
C8_Witness ==
    \E msisdn \in DOMAIN memory_sessions :
        /\ memory_sessions[msisdn].state = "DELIVERY"
        /\ memory_sessions[msisdn].cart # <<>>
        /\ IsUssd(response) /\ Contains(response.MSG, "(min 3 chars)")

-----------------------------------------------------------------------------
(* C9: in every reachable state every cart entry of every session holds an *)
(* item of the catalog and a quantity q with 1 <= q <= 20.                 *)

C9_CartEntriesValid ==
    \A msisdn \in DOMAIN memory_sessions :
        \A i \in 1..Len(memory_sessions[msisdn].cart) :
            LET entry == memory_sessions[msisdn].cart[i]
            IN  /\ entry[1] \in CatalogItems
                /\ entry[2] \in 1..20

\* a cart of two entries, the second one of quantity 5
C9_Witness ==
    \E msisdn \in DOMAIN memory_sessions :
        /\ Len(memory_sessions[msisdn].cart) = 2
        /\ memory_sessions[msisdn].cart[2][2] = 5

-----------------------------------------------------------------------------
(* C10: in state CONFIRM an input other than "1" and "2" leaves the whole  *)
(* session as it was (state CONFIRM, cart, order history), creates no      *)
(* order, and redisplays the summary with the total recomputed from the    *)
(* cart; as the session is unchanged, repeating the input changes nothing. *)

RECURSIVE ExpectedSubtotal(_)
ExpectedSubtotal(cart) ==
    IF cart = <<>> THEN 0
    ELSE Head(cart)[1][2] * Head(cart)[2] + ExpectedSubtotal(Tail(cart))

RECURSIVE ExpectedCount(_)
ExpectedCount(cart) ==
    IF cart = <<>> THEN 0 ELSE Head(cart)[2] + ExpectedCount(Tail(cart))

\* subtotal + 15 + 5 x (item count - 1) + 2
ExpectedTotal(cart) ==
    ExpectedSubtotal(cart)
        + (IF cart = <<>> THEN 0 ELSE 15 + 5 * (ExpectedCount(cart) - 1)) + 2

\* where the message shows a total, it shows `total`, up to the cut of the
\* message at its length limit
ShowsTotal(msg, total) ==
    LET label == "Total: GHS "
        full == Str(total) \o "\n1. Confirm\n2. Cancel"
    IN  \A i \in 1..(Len(msg) - Len(label) + 1) :
            SubSeq(msg, i, i + Len(label) - 1) = label =>
                LET rest == SubSeq(msg, i + Len(label), Len(msg))
                IN  Len(rest) <= Len(full) /\ rest = SubSeq(full, 1, Len(rest))

C10_ConfirmRedisplayIsIdempotent ==
    [][\A msisdn \in AcceptedMsisdns, t \in InputTexts \ {"1", "2"} :
          (InState(msisdn, "CONFIRM") /\ ConfirmTurn(msisdn, t)) =>
              LET old == Before(msisdn)
                  new == After(msisdn)
              IN  /\ new = old
                  /\ new.state = "CONFIRM"
                  /\ new.total = ExpectedTotal(new.cart)
                  /\ orders_table' = orders_table
                  /\ uuid_counter' = uuid_counter
                  /\ IsUssd(response') /\ response'.MSGTYPE = TRUE
                  /\ StartsWith(response'.MSG, "Order Summary:")
                  /\ ShowsTotal(response'.MSG, ExpectedTotal(new.cart))]_vars

\* the summary is shown again after a failed payment left an order behind
C10_Witness ==
    \E msisdn \in DOMAIN memory_sessions :
        /\ memory_sessions[msisdn].state = "CONFIRM"
        /\ memory_sessions[msisdn].order_history # <<>>
        /\ IsUssd(response) /\ StartsWith(response.MSG, "Order Summary:")

-----------------------------------------------------------------------------
(* C11: whenever a turn answers with the order summary, the total it       *)
(* computes for the cart (recorded in the session and shown, as far as the *)
(* message limit lets it show) is the items subtotal plus the delivery fee *)
(* 15 + 5 x (item count - 1) plus the service charge 2, is never below 0,  *)
(* the fee of an empty cart is 0, and a summary asked for again on the     *)
(* unchanged session carries the same total.                               *)

\* the step answers with the order summary
SummaryShown == IsUssd(response') /\ StartsWith(response'.MSG, "Order Summary:")

\* the message shows the delivery fee of the cart, up to the cut of the message
ShowsFee(msg, fee) ==
    LET label == "\nDelivery: GHS "
        full == Str(fee) \o "\nService: GHS 2\n"
    IN  \A i \in 1..(Len(msg) - Len(label) + 1) :
            SubSeq(msg, i, i + Len(label) - 1) = label =>
                LET rest == SubSeq(msg, i + Len(label), Len(msg))
                    shown == IF Len(rest) < Len(full) THEN rest
                             ELSE SubSeq(rest, 1, Len(full))
                IN  shown = SubSeq(full, 1, Len(shown))

-----------------------------------------------------------------------------
(* C12: a new subscriber who dials in, picks "1" (order), category 1, item *)
(* 1, quantity 2, checks out, gives a location, picks a payment and        *)
(* confirms gets a final response with continue = false that contains a    *)
(* newly generated order id and the total 2 x 30 + 20 + 2 = 82.            *)

\* the session of the scenario when its last turn, the confirmation, arrives
ScenarioAtConfirm(session) ==
    /\ session.state = "CONFIRM"
    /\ session.cart = <<<<MENUS[CATEGORIES[1]][1], 2>>>>
    /\ session.order_history = <<>>
    /\ session.delivery_location = "Accra"

C12_EndToEndOrderShowsIdAndTotal ==
    [][\A msisdn \in AcceptedMsisdns :
          (/\ ScenarioAtConfirm(Before(msisdn))
           /\ ConfirmTurn(msisdn, "1")
           /\ IsUssd(response')
           /\ ~StartsWith(response'.MSG, "Payment failed")) =>
              LET new == After(msisdn)
                  order_id == OrderIdText(uuid_counter')
              IN  /\ uuid_counter' = uuid_counter + 1
                  /\ Len(new.order_history) = 1
                  /\ new.order_history[1].order_id = order_id
                  /\ new.order_history[1].total = 82
                  /\ response'.MSGTYPE = FALSE
                  /\ Contains(response'.MSG, order_id)
                  /\ Contains(response'.MSG, "82")]_vars

-----------------------------------------------------------------------------
(* C13: when an order is created with the orders table configured, the     *)
(* turn ends the same way whether the store call succeeds or raises: the   *)
(* receipt with the new order id is appended to the order history and the  *)
(* session and the response after the turn are those of the turn whose     *)
(* store call succeeded; only the row in the orders table is missing.      *)

C13_StoreFailureDoesNotAbortOrder ==
    [][\A msisdn \in AcceptedMsisdns, store_ok \in BOOLEAN :
        \A pay_resp \in PaymentResults(env.PAYSTACK_SECRET_KEY, Before(msisdn).network)
                            \cup {NoPay} :
          (/\ InState(msisdn, "CONFIRM")
           /\ env.airtable_orders
           /\ Turn(msisdn, "1", store_ok, pay_resp)) =>
              LET old == Before(msisdn)
                  new == After(msisdn)
                  order_id == OrderIdText(uuid_counter + 1)
                  stored == handle_confirm("1", old, msisdn, order_id, TRUE, TRUE,
                                           pay_resp)
                  n == Len(new.order_history)
              IN  /\ n = Len(old.order_history) + 1
                  /\ SubSeq(new.order_history, 1, n - 1) = old.order_history
                  /\ new.order_history[n].order_id = order_id
                  /\ new.order_history[n].total = ExpectedTotal(old.cart)
                  /\ uuid_counter' = uuid_counter + 1
                  /\ IsUssd(response')
                  /\ new = stored.session
                  /\ response' = stored.response
                  /\ orders_table' = IF store_ok THEN orders_table \o stored.rows
                                     ELSE orders_table
                  /\ store_ok => Len(stored.rows) = 1]_vars

\* an order was placed although the configured orders table refused its row
C13_Witness ==
    /\ env.airtable_orders
    /\ orders_table = <<>>
    /\ uuid_counter = 1
    /\ IsUssd(response) /\ response.MSGTYPE = FALSE
    /\ \E msisdn \in DOMAIN memory_sessions :
          /\ Len(memory_sessions[msisdn].order_history) = 1
          /\ Contains(response.MSG,
                      "Order #" \o memory_sessions[msisdn].order_history[1].order_id)

-----------------------------------------------------------------------------
(* C14: when the payment of a Mobile Money order confirmed with "1" fails, *)
(* the response is a retry/cancel prompt ("Payment failed: ..." with the   *)
(* options 1. Retry and 2. Cancel) with continue = true and the session    *)
(* stays in CONFIRM with its cart unchanged; from there "1" runs the       *)
(* payment again and "2" cancels to MAIN_MENU.                             *)

\* the turn is a confirmation "1" of a Mobile Money order with result pay_resp
MomoConfirm(msisdn, pay_resp) ==
    /\ InState(msisdn, "CONFIRM")
    /\ Before(msisdn).payment_method = "Mobile Money"
    /\ \E store_ok \in BOOLEAN : Turn(msisdn, "1", store_ok, pay_resp)

\* the last turn left a failed payment behind
AfterFailedPayment == IsUssd(response) /\ StartsWith(response.MSG, "Payment failed")

C14_FailedPaymentPromptsRetryOrCancel ==
    [][\A msisdn \in AcceptedMsisdns :
         LET old == Before(msisdn)
             new == After(msisdn)
             results == PaymentResults(env.PAYSTACK_SECRET_KEY, old.network)
         IN  /\ \A pay_resp \in {r \in results : ~r.status} :
                   MomoConfirm(msisdn, pay_resp) =>
                       /\ new.state = "CONFIRM"
                       /\ new.cart = old.cart
                       /\ IsUssd(response') /\ response'.MSGTYPE = TRUE
                       /\ StartsWith(response'.MSG, "Payment failed")
                       /\ Contains(response'.MSG, "1. Retry")
                       /\ Contains(response'.MSG, "2. Cancel")
             /\ (AfterFailedPayment /\ ConfirmTurn(msisdn, "2")) =>
                   (new.state = "MAIN_MENU" /\ new.cart = <<>>)
             /\ (AfterFailedPayment /\ ConfirmTurn(msisdn, "1")) =>
                   \E pay_resp \in results : MomoConfirm(msisdn, pay_resp)]_vars

-----------------------------------------------------------------------------
(* C15: with the storage or the payment credentials unset, every turn      *)
(* leaves the session in the same state, with the same cart and order      *)
(* history, and answers with the same continue flag as the same turn on    *)
(* the same session with the credentials set and the collaborator          *)
(* succeeding; so a Mobile Money order is confirmed to a terminal response *)
(* without payment credentials too.                                        *)

\* the results of a payment that the gateway accepts, credentials set
AcceptedPayments(network) == {r \in PaymentResults(TRUE, network) : r.status}

C15_UnsetCredentialsKeepTheFlow ==
    [][\A msisdn \in AcceptedMsisdns, t \in InputTexts :
          (/\ ~env.PAYSTACK_SECRET_KEY \/ ~env.airtable_orders
           /\ AnyTurn(msisdn, t)) =>
              LET old == Before(msisdn)
                  new == After(msisdn)
                  pays == /\ old.state = "CONFIRM"
                          /\ t = "1"
                          /\ old.payment_method = "Mobile Money"
              IN  \E pay_resp \in (IF pays THEN AcceptedPayments(old.network)
                                   ELSE {NoPay}) :
                    LET configured == Dispatch(old.state, t, old, msisdn,
                                               OrderIdText(uuid_counter + 1),
                                               TRUE, TRUE, pay_resp)
                    IN  /\ new.state = configured.session.state
                        /\ new.cart = configured.session.cart
                        /\ new.order_history = configured.session.order_history
                        /\ IsUssd(response')
                        /\ response'.MSGTYPE = configured.response.MSGTYPE]_vars

-----------------------------------------------------------------------------
(* C16: a turn whose MSISDN is missing or is not 233 followed by a digit   *)
(* 2-9 and eight more digits is answered at the boundary with continue =   *)
(* false; no state handler runs, no session is created or changed for it   *)
(* and no order is created.                                                *)

\* the required format of a subscriber identifier
WellFormedMsisdn(m) ==
    /\ Len(m) = 12
    /\ \A i \in 1..12 : SubSeq(m, i, i) \in {"0", "1", "2", "3", "4", "5", "6", "7", "8", "9"}
    /\ SubSeq(m, 1, 3) = "233"
    /\ SubSeq(m, 4, 4) \notin {"0", "1"}

MalformedMsisdns == {m \in Msisdns : ~WellFormedMsisdn(m)}

-----------------------------------------------------------------------------
(* One call of paystack_payment, pass by pass (also reached through the    *)
(* /test-payment route, with any network text)                             *)

\* generate_unique_reference: "flap", ten hex digits of a hash of the clock
\* and random data, the clock; the n-th reference drawn
generate_unique_reference(n) == "flap" \o Str(n)

ChargeNetworks == Networks \cup {"glo"}

\* lines 183-197: the checks before the loop
ChargeCall(network) ==
    /\ charge.pc = "idle"
    /\ charge' =
          IF ~env.PAYSTACK_SECRET_KEY
          THEN [pc |-> "done", network |-> network, attempt |-> 0,
                references |-> <<>>, replies |-> <<>>,
                result |-> PayFail("Payment not configured")]
          ELSE IF Lower(network) \notin DOMAIN NetworkMapping
          THEN [pc |-> "done", network |-> network, attempt |-> 0,
                references |-> <<>>, replies |-> <<>>,
                result |-> PayFail("Unsupported network")]
          ELSE [pc |-> "loop", network |-> network, attempt |-> 0,
                references |-> <<>>, replies |-> <<>>, result |-> PayFail("")]
    /\ UNCHANGED <<memory_sessions, orders_table, uuid_counter, env, requests_left,
                   response, threads, window>>

\* lines 219-366: one pass of the loop: a new reference, one POST to the
\* gateway, which comes back with `reply`
ChargePass(reply) ==
    /\ charge.pc = "loop"
    /\ charge.attempt < MaxAttempts
    /\ LET reference == generate_unique_reference(Len(charge.references) + 1)
           pass == ChargeAttempt(charge.network, reply, charge.attempt)
       IN  charge' = [charge EXCEPT
                         !.references = Append(@, reference),
                         !.replies = Append(@, reply),
                         !.pc = IF pass.returns THEN "done" ELSE "loop",
                         !.attempt = IF pass.returns THEN @ ELSE @ + 1,
                         !.result = IF pass.returns THEN pass.result ELSE @]
    /\ UNCHANGED <<memory_sessions, orders_table, uuid_counter, env, requests_left,
                   response, threads, window>>

\* line 369: the loop ran out of passes
ChargeExhausted ==
    /\ charge.pc = "loop"
    /\ charge.attempt >= MaxAttempts
    /\ charge' = [charge EXCEPT
                     !.pc = "done",
                     !.result = PayFail("Payment failed after multiple attempts")]
    /\ UNCHANGED <<memory_sessions, orders_table, uuid_counter, env, requests_left,
                   response, threads, window>>

NextCharge ==
    \/ \E network \in ChargeNetworks : ChargeCall(network)
    \/ \E reply \in GatewayReplies : ChargePass(reply)
    \/ ChargeExhausted

\* a call that has started runs on: every POST ends, with a reply, an error
\* or, after 45 seconds, a timeout
SpecCharge ==
    /\ Init
    /\ [][NextCharge]_vars
    /\ WF_vars(\E reply \in GatewayReplies : ChargePass(reply))
    /\ WF_vars(ChargeExhausted)

-----------------------------------------------------------------------------
(* C17: one call of paystack_payment sends at most 3 requests to the       *)
(* gateway, each with a reference that differs from the references of the  *)
(* earlier passes of the call; a timeout, an exception or a                *)
(* duplicate-reference answer on the first or second pass is followed by   *)
(* another pass; and the call always ends, with an accepted result or with *)
(* a failure.                                                              *)

\* the replies that make the loop go round again
Retried ==
    {r \in GatewayReplies :
        \/ r.kind \in {"timeout", "error"}
        \/ r.kind = "json" /\ ~r.status /\ r.code = "duplicate_reference"}

Distinct(seq) == \A i, j \in 1..Len(seq) : i # j => seq[i] # seq[j]

C17_ChargeIsBoundedAndRetries ==
    /\ [][/\ Len(charge'.references) <= 3
          /\ Len(charge'.replies) = Len(charge'.references)
          /\ Distinct(charge'.references)
          /\ \A reply \in Retried :
                (ChargePass(reply) /\ charge.attempt < 2) =>
                    /\ charge'.pc = "loop"
                    /\ charge'.attempt = charge.attempt + 1
          /\ charge.pc = "loop" =>
                (charge'.pc = "done" \/ charge'.attempt = charge.attempt + 1)
          /\ charge'.pc = "done" =>
                /\ charge'.result.status \in BOOLEAN
                /\ charge'.result.status =>
                      /\ charge'.replies # <<>>
                      /\ charge'.replies[Len(charge'.replies)].kind = "json"
                      /\ charge'.replies[Len(charge'.replies)].status
                /\ ~charge'.result.status => charge'.result.message # ""]_vars
    /\ (charge.pc = "loop") ~> (charge.pc = "done")

\* a call accepted on its third request, after two that were retried
C17_Witness ==
    /\ charge.pc = "done"
    /\ Len(charge.references) = 3
    /\ charge.result.status
    /\ charge.replies[1].kind = "timeout"
    /\ charge.replies[2].kind = "json" /\ charge.replies[2].code = "duplicate_reference"

-----------------------------------------------------------------------------
(* Two server threads (app.run serves every request in a thread of its     *)
(* own): a request is handled statement by statement, the handler of its   *)
(* state in one piece. A thread holds the dict get_session returned to it: *)
(* the one memory_sessions maps its MSISDN to (shared), or one that has    *)
(* been replaced in the map since (value, seen by this thread alone).      *)

SecondSubscriber == "233501234567"

ThreadMsisdns == {Subscriber, SecondSubscriber}

ThreadInputs == {"1", "2"}

Busy(slot) == threads[slot].pc # "idle"

\* the dict the thread holds, as it is now
Held(slot) ==
    IF threads[slot].shared THEN memory_sessions[threads[slot].msisdn]
    ELSE threads[slot].value

\* memory_sessions[msisdn] is assigned another dict by thread `slot`: a
\* thread that holds the dict mapped until now keeps that dict
Replaced(slot, msisdn) ==
    [o \in Slots |->
        IF /\ o # slot
           /\ threads[o].pc \in {"handle", "save"}
           /\ threads[o].msisdn = msisdn
           /\ threads[o].shared
        THEN [threads[o] EXCEPT !.shared = FALSE, !.value = memory_sessions[msisdn]]
        ELSE threads[o]]

\* lines 466-486 and line 80: the request passes the checks and get_session
\* tests `msisdn not in memory_sessions`
Receive(slot, msisdn, input_text) ==
    /\ ~Busy(slot)
    /\ Served
    /\ ~Rejected(msisdn)
    /\ threads' = [threads EXCEPT ![slot] =
          [pc |-> IF msisdn \notin DOMAIN memory_sessions THEN "create" ELSE "fetch",
           msisdn |-> msisdn, input_text |-> input_text, shared |-> TRUE,
           value |-> NewSession(msisdn), state |-> "", resp |-> NoResponse]]
    /\ window' = [window EXCEPT !.reqs = Append(@, <<msisdn, input_text>>)]
    /\ UNCHANGED <<memory_sessions, orders_table, uuid_counter, env, response, charge>>

\* lines 81-93: memory_sessions[msisdn] = {a new session}
Create(slot) ==
    /\ threads[slot].pc = "create"
    /\ LET msisdn == threads[slot].msisdn
       IN  /\ memory_sessions' = save_session(memory_sessions, msisdn, NewSession(msisdn))
           /\ threads' = [IF msisdn \in DOMAIN memory_sessions
                          THEN Replaced(slot, msisdn) ELSE threads
                            EXCEPT ![slot].pc = "fetch"]
    /\ UNCHANGED <<orders_table, uuid_counter, env, requests_left, response, charge,
                   window>>

\* line 94 and line 487: return memory_sessions[msisdn]; state = session["state"]
Fetch(slot) ==
    /\ threads[slot].pc = "fetch"
    /\ threads' = [threads EXCEPT
          ![slot].pc = "handle",
          ![slot].shared = TRUE,
          ![slot].state = memory_sessions[threads[slot].msisdn].state]
    /\ UNCHANGED <<memory_sessions, orders_table, uuid_counter, env, requests_left,
                   response, charge, window>>

\* lines 494-517: the handler of the state read, on the dict held
Handle(slot) ==
    /\ threads[slot].pc = "handle"
    /\ LET t == threads[slot]
           session == Held(slot)
           creates == t.state = "CONFIRM" /\ t.input_text = "1"
           pays == creates /\ session.payment_method = "Mobile Money"
       IN  \E store_ok \in (IF creates /\ env.airtable_orders THEN BOOLEAN ELSE {TRUE}) :
             \E pay_resp \in (IF pays
                              THEN PaymentResults(env.PAYSTACK_SECRET_KEY, session.network)
                              ELSE {NoPay}) :
               LET out == Dispatch(t.state, t.input_text, session, t.msisdn,
                                   OrderIdText(uuid_counter + 1), env.airtable_orders,
                                   store_ok, pay_resp)
               IN  /\ Len(out.session.cart) <= MaxCart
                   /\ uuid_counter + out.drawn <= MaxOrders
                   /\ memory_sessions' =
                         IF t.shared
                         THEN save_session(memory_sessions, t.msisdn, out.session)
                         ELSE memory_sessions
                   /\ threads' = [threads EXCEPT
                         ![slot].pc = "save",
                         ![slot].value = IF t.shared THEN @ ELSE out.session,
                         ![slot].resp = out.response]
                   /\ orders_table' = orders_table \o out.rows
                   /\ uuid_counter' = uuid_counter + out.drawn
    /\ UNCHANGED <<env, requests_left, response, charge, window>>

\* the server is at rest once this thread is done
LastBusy(slot) == \A o \in Slots \ {slot} : ~Busy(o)

\* lines 519-520: save_session(msisdn, session); return response. An
\* exception in the handler skips the save (lines 522-524)
Save(slot) ==
    /\ threads[slot].pc = "save"
    /\ LET t == threads[slot]
           saves == t.resp # InternalError /\ ~t.shared
       IN  /\ memory_sessions' =
                 IF saves THEN save_session(memory_sessions, t.msisdn, t.value)
                 ELSE memory_sessions
           /\ threads' = [IF saves THEN Replaced(slot, t.msisdn) ELSE threads
                            EXCEPT ![slot] = IdleThread]
           /\ response' = t.resp
    /\ window' = IF LastBusy(slot) THEN AtRest(memory_sessions') ELSE window
    /\ UNCHANGED <<orders_table, uuid_counter, env, requests_left, charge>>

InitThreads == Started /\ requests_left = MaxThreadRequests

NextThreads ==
    \E slot \in Slots :
        \/ \E msisdn \in ThreadMsisdns, input_text \in ThreadInputs :
              Receive(slot, msisdn, input_text)
        \/ Create(slot)
        \/ Fetch(slot)
        \/ Handle(slot)
        \/ Save(slot)

SpecThreads == InitThreads /\ [][NextThreads]_vars

-----------------------------------------------------------------------------
(* C18: a step of the handling of a request of subscriber A, in any        *)
(* interleaving with the requests of another subscriber, changes only A's  *)
(* session: the record memory_sessions holds for any other subscriber      *)
(* (state, cart, order history and the rest), the dict a thread of another *)
(* subscriber holds and the other subscriber's presence in the map are as  *)
(* before the step.                                                        *)

\* thread `slot` takes a step of a request of `msisdn`
StepFor(slot, msisdn) ==
    \/ \E input_text \in ThreadInputs : Receive(slot, msisdn, input_text)
    \/ /\ Busy(slot)
       /\ threads[slot].msisdn = msisdn
       /\ Create(slot) \/ Fetch(slot) \/ Handle(slot) \/ Save(slot)

-----------------------------------------------------------------------------
(* C19: when two requests of one subscriber are handled at the same time   *)
(* (the second received before the first is answered), the session the     *)
(* subscriber is left with is the one that handling the two requests one   *)
(* after the other, in one of the two orders, would leave.                 *)

\* the session a request handled in one piece leaves
TurnResult(session, msisdn, input_text) ==
    Dispatch(session.state, input_text, session, msisdn,
             OrderIdText(uuid_counter + 1), env.airtable_orders, TRUE, NoPay).session

\* the session left by the requests `first` then `second`, handled in turn
InTurn(sessions, msisdn, first, second) ==
    TurnResult(TurnResult(get_session(sessions, msisdn), msisdn, first),
               msisdn, second)

C19_ConcurrentTurnsAreSerialized ==
    [][\A slot \in Slots :
          (/\ Save(slot) /\ LastBusy(slot)
           /\ Len(window.reqs) = 2
           /\ window.reqs[1][1] = window.reqs[2][1]) =>
              LET msisdn == window.reqs[1][1]
                  a == window.reqs[1][2]
                  b == window.reqs[2][2]
              IN  \/ memory_sessions'[msisdn] = InTurn(window.start, msisdn, a, b)
                  \/ memory_sessions'[msisdn] = InTurn(window.start, msisdn, b, a)]_vars

-----------------------------------------------------------------------------
(* C20: no turn of an accepted subscriber is answered with the internal    *)
(* error, every USSD response carries a text, and from every session there *)
(* is a sequence of at most three inputs that brings it to MAIN_MENU,      *)
(* whatever the payment gateway does.                                      *)

\* inputs that lead out of every state: back, two menu choices, a location
WayOutInputs == {"#", "1", "2", "Accra"}

\* some sequence of at most k inputs takes the session to MAIN_MENU, every
\* payment on the way failing
RECURSIVE CanReachMainMenu(_, _, _)
CanReachMainMenu(session, msisdn, k) ==
    \/ session.state = "MAIN_MENU"
    \/ /\ k > 0
       /\ \E input_text \in WayOutInputs :
             LET out == Dispatch(session.state, input_text, session, msisdn,
                                 OrderIdText(uuid_counter + 1), env.airtable_orders,
                                 TRUE, NoPay)
             IN  IsUssd(out.response) /\ CanReachMainMenu(out.session, msisdn, k - 1)

C20_NeverStuck ==
    /\ response # InternalError
    /\ IsUssd(response) => response.MSG # ""
    /\ \A msisdn \in DOMAIN memory_sessions :
          /\ memory_sessions[msisdn].state \in States
          /\ CanReachMainMenu(memory_sessions[msisdn], msisdn, 3)

\* an input that was not accepted left the subscriber in the middle of the
\* payment steps
C20_Witness ==
    \E msisdn \in DOMAIN memory_sessions :
        /\ memory_sessions[msisdn].state = "MOMO_NUMBER"
        /\ memory_sessions[msisdn].cart # <<>>
        /\ IsUssd(response)
        /\ response.MSG = MomoNumberMsg(msisdn)
        /\ ~CanReachMainMenu(memory_sessions[msisdn], msisdn, 1)

-----------------------------------------------------------------------------
(* C21: every response of the response encoder has a message of at most    *)
(* 120 characters, whatever the cart or the prompt, and the continuation   *)
(* flag the handler chose: false for the farewell, the placed or created   *)
(* order and the rejections at the boundary, true for every prompt.        *)

\* the messages the handlers send with continue = false
EndsSession(msg) ==
    \/ StartsWith(msg, "Thank you for using FLAP Dish!")
    \/ StartsWith(msg, "Order #")
    \/ StartsWith(msg, "No phone number provided.")
    \/ StartsWith(msg, "Phone must start with 233.")

C21_ResponseWithinLimitKeepsFlag ==
    IsUssd(response) =>
        /\ Len(response.MSG) <= 120
        /\ response.MSGTYPE \in BOOLEAN
        /\ response.MSGTYPE = ~EndsSession(response.MSG)

\* a summary of two cart entries was cut at the limit
C21_Witness ==
    /\ IsUssd(response)
    /\ Len(response.MSG) = 120
    /\ StartsWith(response.MSG, "Order Summary:")
    /\ ~Contains(response.MSG, "2. Cancel")
    /\ response.MSGTYPE = TRUE

-----------------------------------------------------------------------------
(* C22: a turn with input "1" in state CONFIRM appends exactly one receipt *)
(* with a new order id to the order history of the session, whatever the   *)
(* payment method and the result of the payment; every other step leaves   *)
(* every order history as it was, so receipts are never removed or changed.*)

OrderIds(history) == {history[i].order_id : i \in 1..Len(history)}

C22_OneReceiptPerConfirmation ==
    [][\A msisdn \in DOMAIN memory_sessions' :
          LET old == Before(msisdn)
              new == After(msisdn)
              n == Len(old.order_history)
          IN  IF old.state = "CONFIRM" /\ ConfirmTurn(msisdn, "1")
              THEN /\ Len(new.order_history) = n + 1
                   /\ SubSeq(new.order_history, 1, n) = old.order_history
                   /\ new.order_history[n + 1].order_id \notin OrderIds(old.order_history)
                   /\ new.order_history[n + 1].order_id
                         \notin {orders_table[i].OrderID : i \in 1..Len(orders_table)}
                   /\ new.order_history[n + 1].total = ExpectedTotal(old.cart)
                   /\ uuid_counter' = uuid_counter + 1
              ELSE /\ new.order_history = old.order_history
                   /\ uuid_counter' = uuid_counter]_vars

\* a receipt was added by a confirmation whose payment then failed
C22_Witness ==
    \E msisdn \in DOMAIN memory_sessions :
        /\ memory_sessions[msisdn].state = "CONFIRM"
        /\ memory_sessions[msisdn].payment_method = "Mobile Money"
        /\ Len(memory_sessions[msisdn].order_history) = 1
        /\ AfterFailedPayment

-----------------------------------------------------------------------------
(* C23: while a session is in CONFIRM its stored total is the total of its *)
(* cart, which is the total the summary shows (as far as the message limit *)
(* lets it show); and for every order created, the total recorded in the   *)
(* receipt and in the row of the orders table equals that stored total,    *)
(* which is the amount handed to the payment gateway.                      *)

-----------------------------------------------------------------------------
(* The payment of a confirmation (handle_confirm, lines 713-741): the call *)
(* of paystack_payment pass by pass, then the alternative method when the  *)
(* result of the main one mentions a voucher, then the answer              *)

\* line 721: not pay_resp.get("status") and "voucher" in message.lower()
FallsBack(pay_resp) ==
    ~pay_resp.status /\ Contains(Lower(pay_resp.message), "voucher")

\* lines 721-728: paystack_payment_alternative, its two requests answered
\* with init_reply and charge_reply
AlternativeCharge(init_reply, charge_reply) ==
    /\ charge.pc = "done"
    /\ FallsBack(charge.result)
    /\ charge' = [pc |-> "alternative", network |-> charge.network,
                  attempt |-> charge.attempt, references |-> charge.references,
                  replies |-> charge.replies,
                  result |-> paystack_payment_alternative(
                                 env.PAYSTACK_SECRET_KEY, charge.network,
                                 init_reply, charge_reply)]
    /\ UNCHANGED <<memory_sessions, orders_table, uuid_counter, env, requests_left,
                   response, threads, window>>

\* lines 730-741: the result is what the subscriber is told
ReportPayment ==
    /\ \/ charge.pc = "done" /\ ~FallsBack(charge.result)
       \/ charge.pc = "alternative"
    /\ charge' = [charge EXCEPT !.pc = "reported"]
    /\ UNCHANGED <<memory_sessions, orders_table, uuid_counter, env, requests_left,
                   response, threads, window>>

\* the gateway's answers during a confirmation: no answer, a voucher
\* message, a failed charge whose reason is a voucher, an accepted charge,
\* a refusal that is not retried and one that is, a reference used before
PaymentReplies ==
    { GatewayTimeout,
      Json(FALSE, "duplicate_reference", "Duplicate Transaction Reference", "", "", ""),
      Json(FALSE, "", "Dial the USSD voucher code", "", "", ""),
      Json(TRUE, "", "Charge attempted", "failed", "Use the voucher code", ""),
      Json(TRUE, "", "Charge attempted", "send_otp", "", ""),
      Json(FALSE, "", "Insufficient funds", "", "", ""),
      Json(FALSE, "", "Charge failed", "", "", "") }

NextPayment ==
    \/ \E network \in Networks : ChargeCall(network)
    \/ \E reply \in PaymentReplies : ChargePass(reply)
    \/ ChargeExhausted
    \/ \E init_reply \in PaymentReplies, charge_reply \in PaymentReplies :
          AlternativeCharge(init_reply, charge_reply)
    \/ ReportPayment

SpecPayment == Init /\ [][NextPayment]_vars

-----------------------------------------------------------------------------
(* C24: when the main payment method fails on a voucher response of the    *)
(* gateway (the last answer it got mentions a voucher), the alternative    *)
(* method is attempted before the failure is reported to the subscriber.   *)

\* the gateway's answer mentions a voucher
VoucherReply(r) ==
    /\ r.kind = "json"
    /\ \/ Contains(Lower(r.message), "voucher")
       \/ Contains(Lower(r.gateway_response), "voucher")

\* the main method has failed and the last answer it got was a voucher one
MainFailedOnVoucher ==
    /\ charge.pc = "done"
    /\ ~charge.result.status
    /\ charge.replies # <<>>
    /\ VoucherReply(charge.replies[Len(charge.replies)])

C24_VoucherFailureTriesAlternative ==
    [][MainFailedOnVoucher => ~ReportPayment]_vars

-----------------------------------------------------------------------------
(* C25: in every reachable session whose state is CART, DELIVERY,          *)
(* PAYMENT_METHOD, MOMO_NETWORK, MOMO_NUMBER or CONFIRM the cart holds at  *)
(* least one entry of at least one unit, and every order receipt has a     *)
(* total of at least the cheapest item price + 15 + 2.                     *)

CartStates ==
    {"CART", "DELIVERY", "PAYMENT_METHOD", "MOMO_NETWORK", "MOMO_NUMBER", "CONFIRM"}

\* the prices of the catalog
Prices == {MENUS[cat][i][2] : cat \in DOMAIN MENUS, i \in 1..3}

CheapestPrice == CHOOSE p \in Prices : \A q \in Prices : p <= q

SmallestOrder == CheapestPrice + DeliveryFee(1) + ExtraCharge

C25_NoOrderFromAnEmptyCart ==
    \A msisdn \in DOMAIN memory_sessions :
        LET session == memory_sessions[msisdn]
        IN  /\ session.state \in CartStates =>
                  /\ session.cart # <<>>
                  /\ \A i \in 1..Len(session.cart) : session.cart[i][2] >= 1
            /\ \A i \in 1..Len(session.order_history) :
                  session.order_history[i].total >= SmallestOrder

\* an order of a single unit of one item was placed: its total is the
\* item's price + 15 + 2
C25_Witness ==
    \E msisdn \in DOMAIN memory_sessions :
        /\ memory_sessions[msisdn].order_history # <<>>
        /\ \E p \in Prices :
              memory_sessions[msisdn].order_history[1].total
                  = p + DeliveryFee(1) + ExtraCharge
        /\ IsUssd(response)
        /\ StartsWith(response.MSG, "Order #")

-----------------------------------------------------------------------------
(* C26: whenever a session is in MAIN_MENU its cart is empty: every path   *)
(* back to MAIN_MENU leaves no cart entries behind.                        *)

C26_MainMenuHasEmptyCart ==
    \A msisdn \in DOMAIN memory_sessions :
        memory_sessions[msisdn].state = "MAIN_MENU" =>
            memory_sessions[msisdn].cart = <<>>

-----------------------------------------------------------------------------
(* C27: the state of every stored session is one of the ten handled        *)
(* states, so the dispatcher never takes its fallback; in ITEM the         *)
(* selected category is a catalog category; in QTY the selected item is an *)
(* item of the selected category's menu; in CONFIRM with Mobile Money the  *)
(* network is mtn, vodafone or airteltigo and the MoMo number is set.      *)

MenuItems(cat) == {MENUS[cat][i] : i \in 1..Len(MENUS[cat])}

WellFormedSession(session) ==
    /\ session.state \in States
    /\ session.state = "ITEM" => session.selected_category \in DOMAIN MENUS
    /\ session.state = "QTY" =>
          /\ session.selected_category \in DOMAIN MENUS
          /\ session.selected_item \in MenuItems(session.selected_category)
    /\ (session.state = "CONFIRM" /\ session.payment_method = "Mobile Money") =>
          /\ session.network \in Networks
          /\ session.momo_number # ""

C27_SessionsAreWellFormed ==
    \A msisdn \in DOMAIN memory_sessions : WellFormedSession(memory_sessions[msisdn])

\* the summary of a Mobile Money order is shown, network and number chosen
C27_Witness ==
    \E msisdn \in DOMAIN memory_sessions :
        /\ memory_sessions[msisdn].state = "CONFIRM"
        /\ memory_sessions[msisdn].payment_method = "Mobile Money"
        /\ memory_sessions[msisdn].network = "vodafone"
        /\ memory_sessions[msisdn].momo_number = msisdn
        /\ memory_sessions[msisdn].order_history = <<>>

====
